---- MODULE Spec2Model ----
(***************************************************************************)
(* The rate limiter of the Reddit MCP server (src/server.py): the shared   *)
(* RateLimiter instance, its callers (coroutines of one asyncio event      *)
(* loop), and _fetch, which wraps every outbound request in acquire and    *)
(* update.                                                                 *)
(*                                                                         *)
(* Scheduling is asyncio's: a coroutine runs without interruption from one *)
(* await that suspends to the next, so each action below is the code       *)
(* between two suspension points.  The suspension points are               *)
(* asyncio.sleep (server.py:35) and client.get (server.py:47).             *)
(*                                                                         *)
(* Numbers are integers: quota counts and whole seconds.  Header values    *)
(* are texts (sequences of characters) and go through float.               *)
(***************************************************************************)
EXTENDS Integers, Sequences, FiniteSets, TLC

\* ---------------------------------------------------------------- bounds

\* Concurrent callers (coroutines on the event loop).
NumTasks == 2
\* Calls (acquire, update, _fetch, rate_limit_status) made and redirects
\* followed in one run.
MaxCalls == 3
\* The clock stops advancing here.
MaxTime == 2
\* Calls made in one run of the sequential caller (SpecBurst).
BurstCalls == 104

\* ------------------------------------------------------ program constants

\* self.remaining = 100 (server.py:20) and the re-arm value (server.py:36).
QUOTA == 100

KEY_REMAINING == "x-ratelimit-remaining"
KEY_RESET == "x-ratelimit-reset"

Tasks == 1..NumTasks

\* Header texts a response (or a direct caller) supplies.  Numerals have a
\* zero fraction, so that their value is an integer.
HeaderValues == { <<"1">>, <<"2", ".", "0">>, <<"x">> }

HeaderNames == {KEY_REMAINING, KEY_RESET}

\* The texts the reset header takes: one second, or no number.
ResetValues == { <<"1">>, <<"x">> }

\* The header dicts: each name absent or bound to a text.
HeaderDicts ==
    { h \in UNION { [ks -> HeaderValues] : ks \in SUBSET HeaderNames } :
        KEY_RESET \in DOMAIN h => h[KEY_RESET] \in ResetValues }

\* Further texts float accepts: zero, a negative number, infinity and NaN.
EdgeValues ==
    { <<"0">>, <<"-", "1">>, <<"i", "n", "f">>, <<"n", "a", "n">> }

\* Header dicts with such texts: remaining at or below the low-water mark or
\* NaN; the reset one second ahead, infinitely far ahead or NaN.
EdgeDicts ==
    { h \in UNION { [ks -> EdgeValues \cup {<<"1">>}] :
                        ks \in SUBSET HeaderNames } :
        /\ KEY_REMAINING \in DOMAIN h =>
               h[KEY_REMAINING] \in { <<"0">>, <<"-", "1">>, <<"n", "a", "n">> }
        /\ KEY_RESET \in DOMAIN h =>
               h[KEY_RESET] \in { <<"1">>, <<"i", "n", "f">>, <<"n", "a", "n">> } }

\* HTTP statuses of a final response.
Statuses == {200, 429}

\* ----------------------------------------------------------------- floats

\* The two values of a Python float that are no numbers the model counts
\* with: float("inf") and float("nan").  Each stands as an integer far from
\* every number the model reaches; -Inf is minus infinity.
Inf == 1000000
NaN == 2000000

IsInf(x) == x = Inf \/ x = -Inf

\* a + b, a - b, a <= b and a > b on floats: NaN absorbs every sum and
\* fails every comparison; infinity absorbs every number.
plus(a, b) ==
    IF a = NaN \/ b = NaN THEN NaN
    ELSE IF IsInf(a) THEN (IF b = -a THEN NaN ELSE a)
    ELSE IF IsInf(b) THEN b
    ELSE a + b

minus(a, b) == IF b = NaN THEN NaN ELSE plus(a, -b)

le(a, b) == a # NaN /\ b # NaN /\ a <= b

gt(a, b) == a # NaN /\ b # NaN /\ a > b

\* Python's max(a, b): b when b > a, else a (so max(0, nan) is 0).
Max(a, b) == IF gt(b, a) THEN b ELSE a

\* ------------------------------------------------------------------ float

DigitChars == <<"0", "1", "2", "3", "4", "5", "6", "7", "8", "9">>

IsDigit(c) == \E i \in 1..10 : DigitChars[i] = c

DigitVal(c) == CHOOSE d \in 0..9 : DigitChars[d + 1] = c

AllDigits(s) == \A i \in 1..Len(s) : IsDigit(s[i])

RECURSIVE NatVal(_)
NatVal(s) ==
    IF s = <<>> THEN 0
    ELSE 10 * NatVal(SubSeq(s, 1, Len(s) - 1)) + DigitVal(s[Len(s)])

HasSign(s) == s # <<>> /\ s[1] \in {"+", "-"}

Unsigned(s) == IF HasSign(s) THEN Tail(s) ELSE s

Points(s) == { i \in 1..Len(s) : s[i] = "." }

IntPart(s) ==
    IF Points(s) = {} THEN s
    ELSE SubSeq(s, 1, (CHOOSE i \in Points(s) : TRUE) - 1)

FracPart(s) ==
    IF Points(s) = {} THEN <<>>
    ELSE SubSeq(s, (CHOOSE i \in Points(s) : TRUE) + 1, Len(s))

\* The decimal numerals Python's float accepts: an optional sign, digits
\* with at most one point, at least one digit.
IsNumeric(s) ==
    LET u == Unsigned(s)
    IN  /\ Cardinality(Points(u)) <= 1
        /\ AllDigits(IntPart(u))
        /\ AllDigits(FracPart(u))
        /\ Len(IntPart(u)) + Len(FracPart(u)) >= 1

\* float(text): the number, infinity or NaN, or ValueError.  The fraction
\* of a modelled numeral is zero, so the value is that of its integer part.
float(s) ==
    IF IsNumeric(s)
    THEN [ok |-> TRUE,
          val |-> (IF HasSign(s) /\ s[1] = "-" THEN -1 ELSE 1)
                      * NatVal(IntPart(Unsigned(s)))]
    ELSE IF Unsigned(s) = <<"i", "n", "f">>
    THEN [ok |-> TRUE, val |-> IF s[1] = "-" THEN -Inf ELSE Inf]
    ELSE IF Unsigned(s) = <<"n", "a", "n">>
    THEN [ok |-> TRUE, val |-> NaN]
    ELSE [ok |-> FALSE, val |-> 0]

\* float over the header texts of the model, computed once.
parsed == [s \in HeaderValues \cup EdgeValues |-> float(s)]

\* ------------------------------------------------------------ RateLimiter

\* The dict without headers.
NoHeaders == [k \in {} |-> <<>>]

\* What an operation reports when it ends: its outcome ("ok" or the error
\* raised), the headers it was given and the status of the response they
\* came with (0 without a response), for acquire whether the quota was found
\* exhausted (waited = 0) and the caller slept (waited = 1) or not
\* (waited = -1), the update calls it made, and what rate_limit_status said.
NoEvent ==
    [op |-> "none", outcome |-> "none", headers |-> NoHeaders, status |-> 0,
     waited |-> -1, updates |-> 0, report |-> <<>>]

\* Mutant: a missing remaining header is read as zero.
update_remaining_default_zero(headers, rem) ==
    IF KEY_REMAINING \in DOMAIN headers
    THEN LET f == parsed[headers[KEY_REMAINING]]
         IN  IF f.ok THEN [val |-> f.val, exc |-> "none"]
             ELSE [val |-> rem, exc |-> "ValueError"]
    ELSE [val |-> 0, exc |-> "none"]

\* RateLimiter.update, lines 25-26: the remaining header, when present, is
\* parsed and overwrites remaining; a text float rejects raises ValueError.
update_remaining(headers, rem) ==
    IF KEY_REMAINING \in DOMAIN headers
    THEN LET f == parsed[headers[KEY_REMAINING]]
         IN  IF f.ok THEN [val |-> f.val, exc |-> "none"]
             ELSE [val |-> rem, exc |-> "ValueError"]
    ELSE [val |-> rem, exc |-> "none"]

\* Mutant: the reset header is stored as it is, not added to the time.
update_reset_absolute(headers, rst, t_now) ==
    IF KEY_RESET \in DOMAIN headers
    THEN LET f == parsed[headers[KEY_RESET]]
         IN  IF f.ok THEN [val |-> f.val, exc |-> "none"]
             ELSE [val |-> rst, exc |-> "ValueError"]
    ELSE [val |-> rst, exc |-> "none"]

\* Mutant: a reset header that is no numeral is skipped.
update_reset_lenient(headers, rst, t_now) ==
    IF KEY_RESET \in DOMAIN headers /\ parsed[headers[KEY_RESET]].ok
    THEN [val |-> t_now + parsed[headers[KEY_RESET]].val, exc |-> "none"]
    ELSE [val |-> rst, exc |-> "none"]

\* RateLimiter.update, lines 27-28: the reset header, when present, is parsed
\* and reset_at becomes time.time() plus its value.
update_reset(headers, rst, t_now) ==
    IF KEY_RESET \in DOMAIN headers
    THEN LET f == parsed[headers[KEY_RESET]]
         IN  IF f.ok THEN [val |-> plus(t_now, f.val), exc |-> "none"]
             ELSE [val |-> rst, exc |-> "ValueError"]
    ELSE [val |-> rst, exc |-> "none"]

\* RateLimiter.update: the two statements in order; the first ValueError ends
\* the call, with what was assigned before it kept.
update(headers, rem, rst, t_now) ==
    LET r1 == update_remaining(headers, rem)
        r2 == update_reset(headers, rst, t_now)
    IN  IF r1.exc # "none"
        THEN [remaining |-> rem, reset_at |-> rst, exc |-> r1.exc]
        ELSE [remaining |-> r1.val, reset_at |-> r2.val, exc |-> r2.exc]

\* Mutant: the low-water mark is 2.
acquire_wait_mark_two(rem, rst, t_now) ==
    IF rem <= 2 THEN Max(0, rst - t_now) ELSE -1

\* Mutant: the wait is the distance to reset_at, also when it is past.
acquire_wait_distance(rem, rst, t_now) ==
    IF rem <= 1
    THEN (IF rst >= t_now THEN rst - t_now ELSE t_now - rst)
    ELSE -1

\* RateLimiter.acquire, lines 32-33: the wait computed when the quota is at
\* or below the low-water mark; -1 when that branch is not taken.
acquire_wait(rem, rst, t_now) ==
    IF le(rem, 1) THEN Max(0, minus(rst, t_now)) ELSE -1

\* Mutant: the decrement is skipped after the re-arm.
acquire_finish_else_decrement(rem, in_branch) ==
    IF in_branch THEN QUOTA ELSE rem - 1

\* Mutant: the quota is not re-armed inside the branch.
acquire_finish_no_rearm(rem, in_branch) == minus(rem, 1)

\* RateLimiter.acquire, lines 36-37: the re-arm inside the branch, then the
\* unconditional decrement.
acquire_finish(rem, in_branch) ==
    minus(IF in_branch THEN QUOTA ELSE rem, 1)

\* asyncio.sleep(wait) started at time t_now returns no earlier than this.
sleep_until(t_now, w) == plus(t_now, w)

\* The lower-case form of a header name.
lower(name) ==
    CASE name = "X-Ratelimit-Remaining" -> KEY_REMAINING
      [] name = "X-Ratelimit-Reset" -> KEY_RESET
      [] OTHER -> name

\* Mutant: dict(r.headers) keeps the header names as they were sent.
dict_of_headers_as_sent(headers) == headers

\* dict(r.headers): httpx yields the header names in lower case.
dict_of_headers(headers) ==
    [k \in { lower(n) : n \in DOMAIN headers } |->
        headers[CHOOSE n \in DOMAIN headers : lower(n) = k]]

\* r.raise_for_status(): an error for every status outside 2xx.
raise_for_status(status) == ~(status >= 200 /\ status <= 299)

\* The decimal digits of a natural number.
RECURSIVE NatText(_)
NatText(n) ==
    IF n < 10 THEN <<DigitChars[n + 1]>>
    ELSE NatText(n \div 10) \o <<DigitChars[(n % 10) + 1]>>

\* format(x, ".0f"): the text of a float with no decimals.  The numbers of
\* the model are whole, so that no digit is rounded away.
format_0f(x) ==
    IF x = NaN THEN <<"n", "a", "n">>
    ELSE IF x = Inf THEN <<"i", "n", "f">>
    ELSE IF x = -Inf THEN <<"-", "i", "n", "f">>
    ELSE IF x < 0 THEN <<"-">> \o NatText(-x)
    ELSE NatText(x)

\* Mutant: the seconds until the reset are not clamped at zero.
status_report_unclamped(rem, rst, t_now) ==
    <<format_0f(rem), format_0f(minus(rst, t_now))>>

\* rate_limit_status, lines 298-301: the two numbers it reports, as the
\* texts it puts into its answer.
status_report(rem, rst, t_now) ==
    <<format_0f(rem), format_0f(Max(0, minus(rst, t_now)))>>

\* ------------------------------------------------------------------ state

VARIABLES
    remaining,  \* RateLimiter.remaining
    reset_at,   \* RateLimiter.reset_at
    now,        \* time.time()
    pc,         \* per task: "idle", "sleep" (in asyncio.sleep), "send"
                \* (acquire returned, request not sent), "recv" (in client.get)
    call,       \* per task: the operation in progress: "none", "acquire", "fetch"
    wake_at,    \* per task: when its asyncio.sleep ends
    budget,     \* calls still to be made and redirects still to be followed
    last,       \* the operation that ended last, as its caller saw it
    stale,      \* history, per sleeping task: update wrote remaining meanwhile
    ep,         \* history: the acquire calls since the last update call
    burst,      \* history: acquires since construction, no update of remaining
    frame,      \* history, per task: what its _fetch in progress has done
    credit      \* history: acquire calls returned minus client.get calls made

vars ==
    <<remaining, reset_at, now, pc, call, wake_at, budget, last, stale, ep,
      burst, frame, credit>>

\* ---------------------------------------------------------------- history

\* ep.inBatch: every acquire since the last update call (or construction)
\* began in a state with remaining = 1 and reset_at in the future, before any
\* of them returned.  The counts are kept while that holds.
NoBatch == [inBatch |-> FALSE, started |-> 0, done |-> 0, resets |-> 0]

EpStart(e, rem, rst, t_now) ==
    IF e.inBatch /\ rem = 1 /\ rst > t_now /\ e.done = 0
    THEN [e EXCEPT !.started = @ + 1]
    ELSE NoBatch

EpDone(e, waited) ==
    IF e.inBatch
    THEN [e EXCEPT !.done = @ + 1,
                   !.resets = @ + (IF waited >= 0 THEN 1 ELSE 0)]
    ELSE NoBatch

EpUpdate(p) ==
    [inBatch |-> \A t \in Tasks : p[t] # "sleep",
     started |-> 0, done |-> 0, resets |-> 0]

BurstDone(b) == IF b >= 0 /\ b < QUOTA THEN b + 1 ELSE -1

BurstUpdate(b, headers) == IF KEY_REMAINING \in DOMAIN headers THEN -1 ELSE b

\* A _fetch in progress: the acquire calls of it that returned, the
\* client.get calls it made and the requests the client sent for them.
NoFrame == [acqs |-> 0, gets |-> 0, reqs |-> 0]

StaleAfter(headers) ==
    [t \in Tasks |->
        stale[t] \/ (pc[t] = "sleep" /\ KEY_REMAINING \in DOMAIN headers
                     /\ update_remaining(headers, remaining).exc = "none")]

\* ------------------------------------------------------------------- Init

\* RateLimiter.__init__; the clock is past the initial reset_at.
Init ==
    /\ remaining = QUOTA
    /\ reset_at = 0
    /\ now = 1
    /\ pc = [t \in Tasks |-> "idle"]
    /\ call = [t \in Tasks |-> "none"]
    /\ wake_at = [t \in Tasks |-> 0]
    /\ budget = MaxCalls
    /\ last = NoEvent
    /\ stale = [t \in Tasks |-> FALSE]
    /\ ep = [NoBatch EXCEPT !.inBatch = TRUE]
    /\ burst = 0
    /\ frame = [t \in Tasks |-> NoFrame]
    /\ credit = 0

\* ---------------------------------------------------------------- actions

\* Where a task goes when its acquire has returned.
AfterAcquire(c) == IF c = "fetch" THEN "send" ELSE "idle"

\* acquire is entered by task t, called directly (c = "acquire") or as the
\* first statement of _fetch (c = "fetch", line 45), and runs to its sleep or
\* to its return.
Enter(t, c) ==
    LET w == acquire_wait(remaining, reset_at, now)
    IN  /\ pc[t] = "idle"
        /\ budget > 0
        /\ budget' = budget - 1
        /\ stale' = [stale EXCEPT ![t] = FALSE]
        /\ IF w > 0
           THEN /\ pc' = [pc EXCEPT ![t] = "sleep"]
                /\ call' = [call EXCEPT ![t] = c]
                /\ wake_at' = [wake_at EXCEPT ![t] = sleep_until(now, w)]
                /\ ep' = EpStart(ep, remaining, reset_at, now)
                /\ UNCHANGED <<remaining, last, burst, frame, credit>>
           ELSE /\ remaining' = acquire_finish(remaining, w >= 0)
                /\ pc' = [pc EXCEPT ![t] = AfterAcquire(c)]
                /\ call' = [call EXCEPT ![t] = IF c = "fetch" THEN c ELSE "none"]
                /\ last' = [NoEvent EXCEPT !.op = "acquire", !.outcome = "ok",
                                           !.waited = w]
                /\ ep' = EpDone(EpStart(ep, remaining, reset_at, now), w)
                /\ burst' = BurstDone(burst)
                /\ frame' = [frame EXCEPT ![t] =
                                 IF c = "fetch" THEN [NoFrame EXCEPT !.acqs = 1]
                                 ELSE NoFrame]
                /\ credit' = credit + 1
                /\ UNCHANGED wake_at
        /\ UNCHANGED <<reset_at, now>>

AcquireCall(t) == Enter(t, "acquire")

FetchCall(t) == Enter(t, "fetch")

\* Mutant: a caller woken before reset_at sleeps again.
Resume_again(t) ==
    /\ pc[t] = "sleep"
    /\ now >= wake_at[t]
    /\ IF gt(reset_at, now)
       THEN /\ wake_at' = [wake_at EXCEPT ![t] = reset_at]
            /\ UNCHANGED <<remaining, pc, call, stale, last, ep, burst,
                           frame, credit>>
       ELSE /\ remaining' = acquire_finish(remaining, TRUE)
            /\ pc' = [pc EXCEPT ![t] = AfterAcquire(call[t])]
            /\ call' = [call EXCEPT ![t] =
                            IF call[t] = "fetch" THEN "fetch" ELSE "none"]
            /\ wake_at' = [wake_at EXCEPT ![t] = 0]
            /\ stale' = [stale EXCEPT ![t] = FALSE]
            /\ last' = [NoEvent EXCEPT !.op = "acquire", !.outcome = "ok",
                                       !.waited = 1]
            /\ ep' = EpDone(ep, 1)
            /\ burst' = BurstDone(burst)
            /\ frame' = [frame EXCEPT ![t] =
                             IF call[t] = "fetch"
                             THEN [@ EXCEPT !.acqs = @ + 1] ELSE @]
            /\ credit' = credit + 1
    /\ UNCHANGED <<reset_at, now, budget>>

\* asyncio.sleep returns to task t, which runs lines 36-37 and returns.
Resume(t) ==
    /\ pc[t] = "sleep"
    /\ now >= wake_at[t]
    /\ remaining' = acquire_finish(remaining, TRUE)
    /\ pc' = [pc EXCEPT ![t] = AfterAcquire(call[t])]
    /\ call' = [call EXCEPT ![t] = IF call[t] = "fetch" THEN "fetch" ELSE "none"]
    /\ wake_at' = [wake_at EXCEPT ![t] = 0]
    /\ stale' = [stale EXCEPT ![t] = FALSE]
    /\ last' = [NoEvent EXCEPT !.op = "acquire", !.outcome = "ok", !.waited = 1]
    /\ ep' = EpDone(ep, 1)
    /\ burst' = BurstDone(burst)
    /\ frame' = [frame EXCEPT ![t] =
                     IF call[t] = "fetch" THEN [@ EXCEPT !.acqs = @ + 1] ELSE @]
    /\ credit' = credit + 1
    /\ UNCHANGED <<reset_at, now, budget>>

\* A direct call of RateLimiter.update.
UpdateCall(headers) ==
    LET res == update(headers, remaining, reset_at, now)
    IN  /\ budget > 0
        /\ budget' = budget - 1
        /\ remaining' = res.remaining
        /\ reset_at' = res.reset_at
        /\ last' = [NoEvent EXCEPT !.op = "update",
                       !.outcome = IF res.exc = "none" THEN "ok" ELSE res.exc,
                       !.headers = headers, !.updates = 1]
        /\ stale' = StaleAfter(headers)
        /\ ep' = EpUpdate(pc)
        /\ burst' = BurstUpdate(burst, headers)
        /\ UNCHANGED <<now, pc, call, wake_at, frame, credit>>

\* _fetch, lines 46-47: the client is opened, client.get is called and the
\* request goes out.
Send(t) ==
    /\ pc[t] = "send"
    /\ pc' = [pc EXCEPT ![t] = "recv"]
    /\ frame' = [frame EXCEPT ![t].gets = @ + 1, ![t].reqs = @ + 1]
    /\ credit' = credit - 1
    /\ UNCHANGED <<remaining, reset_at, now, call, wake_at, budget, last,
                   stale, ep, burst>>

\* _fetch, lines 46-47: the client was built with follow_redirects=True; a
\* redirect answers the request and client.get sends the next one itself.
\* Each redirect followed is charged to the budget of the run.
Redirect(t) ==
    /\ pc[t] = "recv"
    /\ budget > 0
    /\ budget' = budget - 1
    /\ frame' = [frame EXCEPT ![t].reqs = @ + 1]
    /\ UNCHANGED <<remaining, reset_at, now, pc, call, wake_at, last, stale,
                   ep, burst, credit>>

\* Mutant: raise_for_status comes before update, so that the headers of an
\* error response are not recorded.
Receive_status_first(t, status, headers) ==
    LET bad == raise_for_status(status)
        res == IF bad
               THEN [remaining |-> remaining, reset_at |-> reset_at,
                     exc |-> "none"]
               ELSE update(dict_of_headers(headers), remaining, reset_at, now)
    IN  /\ pc[t] = "recv"
        /\ pc' = [pc EXCEPT ![t] = "idle"]
        /\ call' = [call EXCEPT ![t] = "none"]
        /\ remaining' = res.remaining
        /\ reset_at' = res.reset_at
        /\ last' = [NoEvent EXCEPT !.op = "fetch",
                       !.outcome = IF bad THEN "HTTPStatusError"
                                   ELSE IF res.exc # "none" THEN res.exc
                                        ELSE "ok",
                       !.headers = headers, !.status = status,
                       !.updates = IF bad THEN 0 ELSE 1]
        /\ stale' = IF bad THEN stale ELSE StaleAfter(headers)
        /\ ep' = IF bad THEN ep ELSE EpUpdate(pc')
        /\ burst' = IF bad THEN burst ELSE BurstUpdate(burst, headers)
        /\ frame' = [frame EXCEPT ![t] = NoFrame]
        /\ UNCHANGED <<now, wake_at, budget, credit>>

\* _fetch, lines 47-50: the response arrives; update, raise_for_status,
\* return.
Receive(t, status, headers) ==
    LET res == update(dict_of_headers(headers), remaining, reset_at, now)
    IN  /\ pc[t] = "recv"
        /\ pc' = [pc EXCEPT ![t] = "idle"]
        /\ call' = [call EXCEPT ![t] = "none"]
        /\ remaining' = res.remaining
        /\ reset_at' = res.reset_at
        /\ last' = [NoEvent EXCEPT !.op = "fetch",
                       !.outcome = IF res.exc # "none" THEN res.exc
                                   ELSE IF raise_for_status(status)
                                        THEN "HTTPStatusError" ELSE "ok",
                       !.headers = headers, !.status = status,
                       !.updates = 1]
        /\ stale' = StaleAfter(dict_of_headers(headers))
        /\ ep' = EpUpdate(pc')
        /\ burst' = BurstUpdate(burst, dict_of_headers(headers))
        /\ frame' = [frame EXCEPT ![t] = NoFrame]
        /\ UNCHANGED <<now, wake_at, budget, credit>>

\* Mutant: a failed request is sent again.
RequestFails_retry(t) ==
    /\ pc[t] = "recv"
    /\ pc' = [pc EXCEPT ![t] = "send"]
    /\ last' = [NoEvent EXCEPT !.op = "fetch", !.outcome = "RequestError"]
    /\ UNCHANGED <<remaining, reset_at, now, call, wake_at, budget, stale,
                   ep, burst, frame, credit>>

\* _fetch, line 47: client.get raises (no response was received).
RequestFails(t) ==
    /\ pc[t] = "recv"
    /\ pc' = [pc EXCEPT ![t] = "idle"]
    /\ call' = [call EXCEPT ![t] = "none"]
    /\ last' = [NoEvent EXCEPT !.op = "fetch", !.outcome = "RequestError"]
    /\ frame' = [frame EXCEPT ![t] = NoFrame]
    /\ UNCHANGED <<remaining, reset_at, now, wake_at, budget, stale, ep,
                   burst, credit>>

\* Mutant: rate_limit_status waits until no caller sleeps in acquire.
StatusCall_after_sleepers ==
    /\ \A t \in Tasks : pc[t] # "sleep"
    /\ budget > 0
    /\ budget' = budget - 1
    /\ last' = [NoEvent EXCEPT !.op = "status", !.outcome = "ok",
                               !.report = status_report(remaining, reset_at, now)]
    /\ UNCHANGED <<remaining, reset_at, now, pc, call, wake_at, stale, ep,
                   burst, frame, credit>>

\* rate_limit_status.
StatusCall ==
    /\ budget > 0
    /\ budget' = budget - 1
    /\ last' = [NoEvent EXCEPT !.op = "status", !.outcome = "ok",
                               !.report = status_report(remaining, reset_at, now)]
    /\ UNCHANGED <<remaining, reset_at, now, pc, call, wake_at, stale, ep,
                   burst, frame, credit>>

\* The clock advances.
Tick ==
    /\ now < MaxTime
    /\ now' = now + 1
    /\ UNCHANGED <<remaining, reset_at, pc, call, wake_at, budget, last,
                   stale, ep, burst, frame, credit>>

Next ==
    \/ \E t \in Tasks : AcquireCall(t)
    \/ \E t \in Tasks : FetchCall(t)
    \/ \E t \in Tasks : Resume(t)
    \/ \E h \in HeaderDicts : UpdateCall(h)
    \/ \E t \in Tasks : Send(t)
    \/ \E t \in Tasks : Redirect(t)
    \/ \E t \in Tasks, s \in Statuses, h \in HeaderDicts : Receive(t, s, h)
    \/ \E t \in Tasks : RequestFails(t)
    \/ StatusCall
    \/ Tick

Spec == Init /\ [][Next]_vars

\* ------------------------------------------------------ sequential caller

\* One caller makes acquire calls one after the other on a fresh limiter
\* (the loop of test_rate_limiter_burst_allowed, continued past the quota);
\* meanwhile the reset header, alone, may be fed to update, which leaves
\* remaining to the acquire calls.
ResetOnlyDicts == { h \in HeaderDicts : DOMAIN h \subseteq {KEY_RESET} }

InitBurst ==
    /\ remaining = QUOTA
    /\ reset_at = 0
    /\ now = 1
    /\ pc = [t \in Tasks |-> "idle"]
    /\ call = [t \in Tasks |-> "none"]
    /\ wake_at = [t \in Tasks |-> 0]
    /\ budget = BurstCalls
    /\ last = NoEvent
    /\ stale = [t \in Tasks |-> FALSE]
    /\ ep = [NoBatch EXCEPT !.inBatch = TRUE]
    /\ burst = 0
    /\ frame = [t \in Tasks |-> NoFrame]
    /\ credit = 0

SequentialAcquire(t) ==
    /\ \A u \in Tasks : pc[u] = "idle"
    /\ AcquireCall(t)

NextBurst ==
    \/ \E t \in Tasks : SequentialAcquire(t)
    \/ \E t \in Tasks : Resume(t)
    \/ \E h \in ResetOnlyDicts : UpdateCall(h)
    \/ Tick

SpecBurst == InitBurst /\ [][NextBurst]_vars

\* ----------------------------------------- header names as they are sent

\* The quota header names in lower case and capitalised.
RawNames ==
    HeaderNames \cup {"X-Ratelimit-Remaining", "X-Ratelimit-Reset"}

\* Header dicts under such names: each quota header absent or sent once,
\* under one of its names, with a numeral.
RawDicts ==
    { h \in UNION { [ks -> {<<"1">>, <<"2", ".", "0">>}] :
                        ks \in SUBSET RawNames } :
        /\ \A m, n \in DOMAIN h : lower(m) = lower(n) => m = n
        /\ \A n \in DOMAIN h : lower(n) = KEY_RESET => h[n] \in ResetValues }

\* _fetch calls whose responses carry such headers, and direct calls of
\* update with such dicts.
NextCase ==
    \/ \E t \in Tasks : FetchCall(t)
    \/ \E t \in Tasks : Resume(t)
    \/ \E t \in Tasks : Send(t)
    \/ \E t \in Tasks, st \in Statuses, h \in RawDicts : Receive(t, st, h)
    \/ \E h \in RawDicts : UpdateCall(h)
    \/ Tick

SpecCase == Init /\ [][NextCase]_vars

\* ----------------------------------------- the limiter fed edge values

\* The clock advances up to MaxTime, and further while a caller sleeps
\* towards a wake time that is a number ahead of it.
Advance ==
    /\ \/ now < MaxTime
       \/ \E t \in Tasks :
              pc[t] = "sleep" /\ wake_at[t] # Inf /\ now < wake_at[t]
    /\ now' = now + 1
    /\ UNCHANGED <<remaining, reset_at, pc, call, wake_at, budget, last,
                   stale, ep, burst, frame, credit>>

\* Callers of acquire, update and rate_limit_status alone, update given the
\* edge texts.
NextValues ==
    \/ \E t \in Tasks : AcquireCall(t)
    \/ \E t \in Tasks : Resume(t)
    \/ \E h \in EdgeDicts : UpdateCall(h)
    \/ StatusCall
    \/ Advance

\* The clock keeps advancing, and the event loop runs a caller whose sleep
\* is over.
SpecValues ==
    /\ Init
    /\ [][NextValues]_vars
    /\ WF_vars(Advance)
    /\ \A t \in Tasks : WF_vars(Resume(t))

\* ------------------------------------------------- observations of a step

\* Task t goes to sleep inside acquire in this step.
EntersSleep(t) == pc[t] = "idle" /\ pc'[t] = "sleep"

\* Task t comes back from its sleep and acquire returns in this step.
ReturnsFromSleep(t) == pc[t] = "sleep" /\ pc'[t] # "sleep"

\* A call is made in this step: the budget is charged and no client.get
\* sends a further request.
CallIsMade ==
    /\ budget' = budget - 1
    /\ \A t \in Tasks : frame'[t].reqs <= frame[t].reqs

\* An acquire call is made and returns without sleeping in this step.
ReturnsAtOnce ==
    /\ CallIsMade
    /\ last'.op = "acquire"
    /\ \A t \in Tasks : ~EntersSleep(t)

\* update is called directly in this step; last'.headers holds the headers
\* it is given.
UpdateIsCalled == CallIsMade /\ pc' = pc /\ last'.op = "update"

\* rate_limit_status is called in this step; last'.report holds what it
\* reports.
StatusIsCalled == CallIsMade /\ pc' = pc /\ last'.op = "status"

\* Some caller is suspended inside acquire.
SomeoneSleeps == \E t \in Tasks : pc[t] = "sleep"

\* The client.get of task t ends in this step.
GetEnds(t) == pc[t] = "recv" /\ pc'[t] # "recv"

\* The client.get of task t returns a response in this step; last'.headers
\* and last'.status hold its headers and its status.
GetReturns(t) == GetEnds(t) /\ last'.status \in Statuses

\* An acquire call is made in this step.
AcquireIsCalled == ReturnsAtOnce \/ \E t \in Tasks : EntersSleep(t)

\* The values of the numerals among the header texts, written out.
Numerals == { <<"1">>, <<"2", ".", "0">> }

ValueOf(s) == IF s = <<"1">> THEN 1 ELSE 2

WellFormed(h) == \A k \in DOMAIN h : h[k] \in Numerals

\* ----------------------------------------------------------------- claims

\* C1 (as claimed): K >= 2 acquire calls started together on a limiter with
\* remaining = 1 and reset_at in the future, no update meanwhile: once all
\* have returned, at most one of them has reset remaining to the quota and
\* remaining is what K calls made one after the other leave, QUOTA - K.
C1_ConcurrentExhaustionSafe ==
    (ep.inBatch /\ ep.started >= 2 /\ ep.done = ep.started)
        => (ep.resets <= 1 /\ remaining = QUOTA - ep.done)

\* C2 (as claimed): a change of remaining made by acquire is a decrement by
\* one, or a reset to the quota (less the decrement) by a call that found
\* remaining <= 1 after the last update of remaining; a call that was
\* already asleep when update wrote remaining only decrements it.
C2_ServerFeedbackAuthoritative ==
    [][ /\ ReturnsAtOnce =>
              \/ remaining' = remaining - 1
              \/ remaining <= 1 /\ remaining' = QUOTA - 1
        /\ \A t \in Tasks :
              ReturnsFromSleep(t) =>
                  \/ remaining' = remaining - 1
                  \/ ~stale[t] /\ remaining' = QUOTA - 1
      ]_vars

C4_BurstAllowance ==
    /\ [](burst \in 0..(QUOTA - 1) => remaining = QUOTA - burst)
    /\ [][ /\ (remaining > 1 /\ AcquireIsCalled) =>
                  /\ ReturnsAtOnce
                  /\ remaining' = remaining - 1
           /\ (burst \in 0..(QUOTA - 2) /\ AcquireIsCalled) =>
                  /\ ReturnsAtOnce
                  /\ burst' = burst + 1
         ]_vars

\* C4: QUOTA - 1 acquire calls have been made on the fresh limiter, the last
\* of them while reset_at lay in the future.
C4_Witness ==
    burst = QUOTA - 1 /\ remaining = 1 /\ reset_at > now /\ last.op = "acquire"

\* C5: an acquire call that finds remaining <= 1 and reset_at <= now returns
\* without sleeping and leaves remaining = QUOTA - 1; a call on the limiter
\* as constructed does not sleep either.
C5_NoWaitAfterReset ==
    [][ /\ (remaining <= 1 /\ reset_at <= now /\ AcquireIsCalled) =>
              /\ ReturnsAtOnce
              /\ last'.waited = 0
              /\ remaining' = QUOTA - 1
        /\ (remaining = QUOTA /\ reset_at = 0 /\ AcquireIsCalled) =>
              ReturnsAtOnce
      ]_vars

\* C5: update left remaining = 1 and an acquire call then found the quota
\* exhausted with the reset time passed, and returned at once.
C5_Witness ==
    /\ last.op = "acquire" /\ last.waited = 0
    /\ remaining = QUOTA - 1 /\ burst = -1 /\ reset_at > 0

\* C6: update given both headers, both numerals, leaves remaining at the
\* value of the one and reset_at at now plus the value of the other,
\* whatever they were before.
C6_UpdateOverwrites ==
    [][ UpdateIsCalled =>
          LET h == last'.headers
          IN  (DOMAIN h = HeaderNames /\ WellFormed(h)) =>
                  /\ remaining' = ValueOf(h[KEY_REMAINING])
                  /\ reset_at' = now + ValueOf(h[KEY_RESET])
                  /\ last'.outcome = "ok"
      ]_vars

\* C6: update has overwritten a state other than the constructed one with
\* "2.0" and "1".
C6_Witness ==
    /\ last.op = "update" /\ DOMAIN last.headers = HeaderNames /\ last.outcome = "ok"
    /\ remaining = 2 /\ reset_at = now + 1 /\ now > 1 /\ burst = -1

\* C7: update leaves remaining alone when no remaining header is given, and
\* reset_at alone when no reset header is given.
C7_MissingHeadersUntouched ==
    [][ UpdateIsCalled =>
          LET h == last'.headers
          IN  /\ KEY_REMAINING \notin DOMAIN h => remaining' = remaining
              /\ KEY_RESET \notin DOMAIN h => reset_at' = reset_at
      ]_vars

\* C7: update({}) has returned on a limiter whose fields earlier calls had
\* changed.
C7_Witness ==
    /\ last.op = "update" /\ last.headers = NoHeaders /\ last.outcome = "ok"
    /\ remaining = 1 /\ reset_at = 3

\* C8: update given a header text that is no numeral raises ValueError, and
\* so does the _fetch that received it in a response.
C8_MalformedFailsLoudly ==
    [][ /\ (UpdateIsCalled /\ ~WellFormed(last'.headers)) =>
              last'.outcome = "ValueError"
        /\ \A t \in Tasks :
              (GetReturns(t) /\ ~WellFormed(last'.headers)) =>
                  last'.op = "fetch" /\ last'.outcome = "ValueError"
      ]_vars

\* C8: a _fetch has ended in ValueError.
C8_Witness ==
    /\ last.op = "fetch" /\ last.outcome = "ValueError"
    /\ DOMAIN last.headers = {KEY_RESET}

\* C9 (as claimed): _fetch applies update once to every response it
\* receives, and for a status of 400 or more then raises the HTTP status
\* error.
C9_UpdateThenStatusError ==
    [][ \A t \in Tasks :
          GetReturns(t) =>
              LET s == last'.status
              IN  /\ last'.updates = 1
                  /\ s >= 400 => last'.outcome = "HTTPStatusError"
      ]_vars

\* C9 (amended): _fetch applies update once to every response it receives,
\* whatever the status; when the quota headers of the response are absent
\* or numerals the limiter takes their values, and a status of 400 or more
\* then raises the HTTP status error; when one is no numeral the ValueError
\* of update is raised instead, for every status.
C9_UpdateThenStatusErrorWellFormed ==
    [][ \A t \in Tasks :
          GetReturns(t) =>
              LET s == last'.status
                  h == last'.headers
              IN  /\ last'.updates = 1
                  /\ WellFormed(h) =>
                        /\ remaining' = IF KEY_REMAINING \in DOMAIN h
                                        THEN ValueOf(h[KEY_REMAINING])
                                        ELSE remaining
                        /\ reset_at' = IF KEY_RESET \in DOMAIN h
                                       THEN now + ValueOf(h[KEY_RESET])
                                       ELSE reset_at
                        /\ last'.outcome = IF s >= 400
                                           THEN "HTTPStatusError"
                                           ELSE "ok"
                  /\ ~WellFormed(h) => last'.outcome = "ValueError"
      ]_vars

\* C9: a _fetch has ended in the HTTP status error with the limiter holding
\* the values of the response's headers.
C9_Witness ==
    /\ last.op = "fetch" /\ last.outcome = "HTTPStatusError"
    /\ last.status = 429
    /\ DOMAIN last.headers = HeaderNames /\ last.updates = 1
    /\ remaining = 2 /\ reset_at = now + 1

\* C10 (as claimed): a _fetch sends no request before its one acquire call
\* has returned, and one request at most.
C10_OneRequestPerAcquire ==
    \A t \in Tasks :
        /\ frame[t].acqs <= 1
        /\ frame[t].reqs <= frame[t].acqs

\* C10 (amended): a _fetch makes no client.get call before its one acquire
\* call has returned, and one at most, failed or not; the client sends
\* requests for that call alone, more than one only to follow redirects. So
\* the client.get calls made never outnumber the acquire calls returned.
C10_OneGetPerAcquire ==
    /\ credit >= 0
    /\ \A t \in Tasks :
          /\ frame[t].acqs <= 1
          /\ frame[t].gets <= frame[t].acqs
          /\ frame[t].reqs >= frame[t].gets
          /\ frame[t].gets = 0 => frame[t].reqs = 0
          /\ pc[t] \in {"idle", "sleep"} => frame[t] = NoFrame
          /\ pc[t] = "send" => frame[t] = [NoFrame EXCEPT !.acqs = 1]
          /\ pc[t] = "recv" => frame[t].acqs = 1 /\ frame[t].gets = 1

\* C10: a _fetch whose acquire slept is in its client.get, which has
\* followed a redirect.
C10_Witness ==
    /\ credit = 0
    /\ last.op = "acquire" /\ last.waited = 1
    /\ \E t \in Tasks : pc[t] = "recv" /\ frame[t].reqs = 2

\* C11 (as claimed): an acquire call raises no error, sleeps at most once
\* (its wake time, once set, stays) and returns when it wakes, and every
\* caller that sleeps returns in the end.
C11_AcquireAlwaysCompletes ==
    /\ [](last.op = "acquire" => last.outcome = "ok")
    /\ [][ \A t \in Tasks :
              /\ (pc[t] = "sleep" /\ pc'[t] = "sleep") =>
                     wake_at'[t] = wake_at[t]
              /\ ReturnsFromSleep(t) =>
                     pc'[t] = "idle" /\ last'.op = "acquire"
          ]_vars
    /\ \A t \in Tasks : (pc[t] = "sleep") ~> (pc[t] = "idle")

\* C11 (amended): an acquire call raises no error, sleeps at most once and
\* returns when it wakes; a caller that sleeps returns in the end when the
\* wait it computed is a number, and never when it is infinite (reset_at
\* was set from a reset header of "inf").
C11_AcquireCompletesFiniteWait ==
    /\ [](last.op = "acquire" => last.outcome = "ok")
    /\ [][ \A t \in Tasks :
              /\ (pc[t] = "sleep" /\ pc'[t] = "sleep") =>
                     wake_at'[t] = wake_at[t]
              /\ ReturnsFromSleep(t) =>
                     pc'[t] = "idle" /\ last'.op = "acquire"
              /\ (pc[t] = "sleep" /\ wake_at[t] = Inf) => pc'[t] = "sleep"
          ]_vars
    /\ \A t \in Tasks :
          (pc[t] = "sleep" /\ wake_at[t] # Inf) ~> (pc[t] = "idle")

\* C11: a caller that slept has returned, update having made reset_at
\* infinite during its sleep.
C11_Witness ==
    /\ last.op = "acquire" /\ last.waited = 1
    /\ reset_at = Inf

\* C12: while a caller is suspended inside acquire, update (whatever the
\* headers) and rate_limit_status can be called by others, and a call of
\* either made then runs to its end in one go, the suspended caller staying
\* suspended with its wake time.
C12_SuspendedCallerDoesNotBlock ==
    /\ []((SomeoneSleeps /\ budget > 0) =>
              /\ ENABLED StatusCall
              /\ \A h \in HeaderDicts : ENABLED UpdateCall(h))
    /\ [][ (SomeoneSleeps /\ (UpdateIsCalled \/ StatusIsCalled)) =>
              /\ pc' = pc /\ wake_at' = wake_at
              /\ last'.outcome \in {"ok", "ValueError"}
          ]_vars

\* C12: rate_limit_status has reported, at or after the wake time of a
\* caller that is still suspended.
C12_Witness ==
    /\ last.op = "status" /\ last.report = <<format_0f(remaining), <<"0">>>>
    /\ \E t \in Tasks :
          pc[t] = "sleep" /\ wake_at[t] = reset_at /\ now >= wake_at[t]

\* C13: rate_limit_status leaves remaining and reset_at (and every caller)
\* as they are, and reports texts that read back as the current remaining
\* and as reset_at - now when that is positive, zero otherwise: never a
\* negative number of seconds.
C13_StatusReadOnly ==
    [][ StatusIsCalled =>
          /\ remaining' = remaining /\ reset_at' = reset_at
          /\ pc' = pc /\ wake_at' = wake_at
          /\ last'.outcome = "ok"
          /\ float(last'.report[1]).val = remaining
          /\ float(last'.report[2]).val =
                 (IF gt(reset_at, now) THEN minus(reset_at, now) ELSE 0)
          /\ last'.report[2][1] # "-"
      ]_vars

\* C13: rate_limit_status has reported a negative remaining and zero
\* seconds, at the wake time of a caller that is still suspended.
C13_Witness ==
    /\ last.op = "status" /\ last.report = << <<"-", "1">>, <<"0">> >>
    /\ remaining = -1
    /\ \E t \in Tasks : pc[t] = "sleep" /\ now >= wake_at[t]

\* C14 (as claimed): update, called directly or by _fetch with the headers
\* of a response, takes a quota header sent under a capitalised name as it
\* takes the header in lower case.
C14_UpdateCaseInsensitive ==
    [][ /\ UpdateIsCalled =>
              \A n \in DOMAIN last'.headers :
                  /\ lower(n) = KEY_REMAINING =>
                         remaining' = ValueOf(last'.headers[n])
                  /\ lower(n) = KEY_RESET =>
                         reset_at' = now + ValueOf(last'.headers[n])
        /\ \A t \in Tasks :
              GetReturns(t) =>
                  \A n \in DOMAIN last'.headers :
                      /\ lower(n) = KEY_REMAINING =>
                             remaining' = ValueOf(last'.headers[n])
                      /\ lower(n) = KEY_RESET =>
                             reset_at' = now + ValueOf(last'.headers[n])
      ]_vars

\* C14 (amended): _fetch hands update the headers of a response under
\* lower-case names, so that a quota header of a response counts under any
\* capitalisation; update itself looks up the lower-case names exactly: in
\* a dict given to it directly a header under a capitalised name is left
\* out of account.
C14_ResponseHeadersCaseInsensitive ==
    [][ /\ UpdateIsCalled =>
              /\ \A n \in DOMAIN last'.headers \cap HeaderNames :
                     /\ n = KEY_REMAINING =>
                            remaining' = ValueOf(last'.headers[n])
                     /\ n = KEY_RESET =>
                            reset_at' = now + ValueOf(last'.headers[n])
              /\ KEY_REMAINING \notin DOMAIN last'.headers =>
                     remaining' = remaining
              /\ KEY_RESET \notin DOMAIN last'.headers =>
                     reset_at' = reset_at
        /\ \A t \in Tasks :
              GetReturns(t) =>
                  \A n \in DOMAIN last'.headers :
                      /\ lower(n) = KEY_REMAINING =>
                             remaining' = ValueOf(last'.headers[n])
                      /\ lower(n) = KEY_RESET =>
                             reset_at' = now + ValueOf(last'.headers[n])
      ]_vars

\* C14: a response with both quota headers under capitalised names has set
\* both fields of the limiter.
C14_Witness ==
    /\ last.op = "fetch" /\ last.outcome = "ok"
    /\ DOMAIN last.headers = RawNames \ HeaderNames
    /\ remaining = 2 /\ reset_at = now + 1

\* C15 (as claimed): an acquire call that found remaining <= 1 returns only
\* when the clock has reached the reset_at the limiter holds then, also
\* when update moved reset_at on while the caller slept.
C15_WaitsUntilCurrentReset ==
    [][ /\ (ReturnsAtOnce /\ le(remaining, 1)) => le(reset_at, now)
        /\ \A t \in Tasks : ReturnsFromSleep(t) => le(reset_at, now)
      ]_vars

\* An acquire call returns in this step.
AcquireReturns == ReturnsAtOnce \/ \E t \in Tasks : ReturnsFromSleep(t)

\* C16 (as claimed): when an acquire call returns, remaining is above zero,
\* whatever update wrote before or during the call.
C16_RemainingPositiveAtReturn ==
    [][ AcquireReturns => gt(remaining', 0) ]_vars

\* C16 (amended): when an acquire call returns, remaining is above zero,
\* whatever number (zero, negative, infinite) update wrote before or during
\* the call; when update wrote NaN (a remaining header of "nan") and the
\* call returns without sleeping, remaining is NaN still.
C16_RemainingPositiveUnlessNaN ==
    [][ /\ (ReturnsAtOnce /\ remaining # NaN) => gt(remaining', 0)
        /\ (ReturnsAtOnce /\ remaining = NaN) => remaining' = NaN
        /\ \A t \in Tasks : ReturnsFromSleep(t) => gt(remaining', 0)
      ]_vars

\* C16: an acquire call that found remaining at or below the mark, written
\* by update, and the reset time past has returned with 99.
C16_Witness ==
    /\ last.op = "acquire" /\ last.waited = 0
    /\ remaining = QUOTA - 1
    /\ burst = -1

====
